---- MODULE Spec2Model ----
(***************************************************************************)
(* Model of teacher_mcq_firebase_app.py: the "Create MCQ" tab, the "View    *)
(* Recent MCQs" button and the "Random Question Selector" tab of main(),   *)
(* with save_mcq_to_firebase, query_mcqs_with_filters_firebase,            *)
(* get_filter_options_firebase and select_random_mcqs_firebase, over a     *)
(* Firestore collection 'mcqs'.  An action of a tab is the part of one     *)
(* script run that belongs to that tab.                                    *)
(*                                                                         *)
(* Python strings are sequences of one-character strings, so that strip(), *)
(* lower() and split(",") are computed character by character.  Python     *)
(* values that may be None, a str or an int are tagged records.            *)
(***************************************************************************)
EXTENDS Integers, Sequences, FiniteSets, TLC

VARIABLES
    store,      \* the documents of collection 'mcqs', in creation order
    saveCalls,  \* number of calls of save_mcq_to_firebase so far (the clock)
    session,    \* st.session_state
    widget,     \* the values the selectboxes of tab1 currently show
    shown,      \* st.error / st.success / st.info messages of the last run
    event,      \* the author's action that started the last run, with its input
    saved,      \* history: what the author had selected at each successful save
    q,          \* the call of query_mcqs_with_filters_firebase in the last run
    smp,        \* the call of select_random_mcqs_firebase in the last run
    sv,         \* the call of save_mcq_to_firebase in the last run
    cat,        \* the call of get_filter_options_firebase in the last run
    tab3,       \* the values the filter controls of tab3 currently show
    view        \* what the last run rendered below the form and in tab3

vars == <<store, saveCalls, session, widget, shown, event, saved, q, smp,
          sv, cat, tab3, view>>

----------------------------------------------------------------------------
(* Bounds of the model *)

\* documents in the store of a query specification's initial state
MaxDocs == 2
\* calls of save_mcq_to_firebase in one behaviour
MaxSaves == 1
\* filters of one query call that are given (not None)
MaxGiven == 2
\* length of the list handed to select_random_mcqs_firebase
MaxRecords == 3
\* the year selectbox offers range(2015, YearEnd); the source has 2025
YearEnd == 2017

----------------------------------------------------------------------------
(* Python values *)

None == [k |-> "NoneType"]
PyStr(s) == [k |-> "str", v |-> s]
PyInt(n) == [k |-> "int", v |-> n]

\* bool(x) of a None, str or int
Truthy(x) ==
    CASE x.k = "NoneType" -> FALSE
      [] x.k = "str" -> Len(x.v) > 0
      [] x.k = "int" -> x.v # 0

\* x == y of two such values (values of different types are unequal)
PyEq(x, y) == x.k = y.k /\ (x.k = "NoneType" \/ x.v = y.v)

Range(s) == {s[i] : i \in DOMAIN s}

\* min(a, b)
Min(a, b) == IF a < b THEN a ELSE b

----------------------------------------------------------------------------
(* str methods *)

IsSpace(c) == c \in {" ", "\t", "\n"}

RECURSIVE LStrip(_)
LStrip(s) == IF s # <<>> /\ IsSpace(Head(s)) THEN LStrip(Tail(s)) ELSE s

RECURSIVE RStrip(_)
RStrip(s) ==
    IF s # <<>> /\ IsSpace(s[Len(s)]) THEN RStrip(SubSeq(s, 1, Len(s) - 1)) ELSE s

\* s.strip()
Strip(s) == RStrip(LStrip(s))

\* c.lower() of one character
LowerChar(c) ==
    CASE c = "A" -> "a"
      [] c = "B" -> "b"
      [] c = "L" -> "l"
      [] OTHER -> c

\* s.lower()
Lower(s) == [i \in DOMAIN s |-> LowerChar(s[i])]

\* s.split(","): the pieces between the commas, empty pieces included
RECURSIVE Split(_)
Split(s) ==
    IF \A i \in DOMAIN s : s[i] # ","
    THEN <<s>>
    ELSE LET i == CHOOSE j \in DOMAIN s :
                      s[j] = "," /\ \A l \in 1..(j - 1) : s[l] # ","
         IN  <<SubSeq(s, 1, i - 1)>> \o Split(SubSeq(s, i + 1, Len(s)))

----------------------------------------------------------------------------
(* String literals of the source *)

\* "All", the value of a filter control that means "no filter"
ALL == <<"A", "l", "l">>
\* the options of the "Question Type *" selectbox
QUESTION_BANK == <<"Q", "u", "e", "s", "t", "i", "o", "n", " ", "B", "a", "n", "k">>
PYQ == <<"P", "Y", "Q">>
DUMMY == <<"D", "u", "m", "m", "y">>
QuestionTypeOptions == <<QUESTION_BANK, PYQ, DUMMY>>
\* the options of the "Difficulty Level *" selectbox
EASY == <<"E", "a", "s", "y">>
MEDIUM == <<"M", "e", "d", "i", "u", "m">>
HARD == <<"H", "a", "r", "d">>
DifficultyOptions == <<EASY, MEDIUM, HARD>>
\* the options of the "Correct Answer *" selectbox, the keys of "options"
OptionKeys == <<"A", "B", "C", "D">>
\* year_options = list(range(2015, 2025)), cut at YearEnd
YearStart == 2015
year_options == [i \in 1..(YearEnd - YearStart) |-> YearStart + i - 1]
\* the messages of the submission path
MSG_REQUIRED == "Please fill in all required fields marked with *"
MSG_YEAR == "Please provide the year for PYQ questions"
MSG_SAVED == "MCQ saved successfully! Document ID: "
MSG_SAVE_ERROR == "Error saving MCQ: "
MSG_IMAGE_ADDED == "Image added! It will be included with your question."
MSG_QUERY_ERROR == "Error querying MCQs from Firebase: "
MSG_CATALOG_ERROR == "Error getting filter options from Firebase: "
MSG_RECENT_ERROR == "Error fetching recent MCQs: "
\* the messages of tab3
MSG_NO_MCQS == "No MCQs available. Create some MCQs first in the 'Create MCQ' tab!"
MSG_NO_MATCH == "No questions match the selected query filters. Try adjusting your criteria."

----------------------------------------------------------------------------
(* syllabus.py: subject -> topic -> description (the module is imported by *)
(* the source; its content is taken as two subjects with their topics)     *)

PHYSICS == <<"P", "h", "y">>
MATHS == <<"M", "a", "t">>
KINEMATICS == <<"K", "i", "n">>
OPTICS == <<"O", "p", "t">>
ALGEBRA == <<"A", "l", "g">>

\* list(syllabus.keys())
SyllabusSubjects == <<PHYSICS, MATHS>>
\* list(syllabus[subject].keys())
SyllabusTopics(subject) ==
    IF subject = PHYSICS THEN <<KINEMATICS, OPTICS>> ELSE <<ALGEBRA>>

----------------------------------------------------------------------------
(* dict operations (st.session_state, a document's fields) *)

\* d.get(key, default)
Get(d, key, default) == IF key \in DOMAIN d THEN d[key] ELSE default

\* d[key] = value
Set(d, key, value) ==
    [x \in DOMAIN d \cup {key} |-> IF x = key THEN value ELSE d[x]]

\* del d[key]
Del(d, key) == [x \in DOMAIN d \ {key} |-> d[x]]

----------------------------------------------------------------------------
(* tab1 of main(): the selections made outside the form *)

\* The year selectbox is created with index=len(year_options)-1.
DefaultYear == PyInt(year_options[Len(year_options)])

\* A run that assigns "year" only while st.session_state holds none.
Tab1Selections_YearOnce(w, ss) ==
    LET s1 == Set(ss, "question_type", PyStr(w.question_type))
        s2 == IF w.question_type = PYQ /\ "year" \notin DOMAIN ss
              THEN Set(s1, "year", w.year) ELSE s1
        s3 == Set(s2, "selected_subject", PyStr(w.subject))
    IN  Set(s3, "selected_topic", PyStr(w.topic))

\* The statements of one script run that copy the widgets into
\* st.session_state: "year" is assigned only under PYQ and is never removed.
Tab1Selections(w, ss) ==
    LET s1 == Set(ss, "question_type", PyStr(w.question_type))
        s2 == IF w.question_type = PYQ THEN Set(s1, "year", w.year) ELSE s1
        s3 == Set(s2, "selected_subject", PyStr(w.subject))
    IN  Set(s3, "selected_topic", PyStr(w.topic))

\* The first script run: every selectbox shows its default option.
InitWidget ==
    [question_type |-> QuestionTypeOptions[1],
     year |-> None,
     subject |-> SyllabusSubjects[1],
     topic |-> SyllabusTopics(SyllabusSubjects[1])[1],
     uploaded_img |-> None]

EmptyDict == [x \in {} |-> None]

\* No call of the query, the sampler, the save, the catalog in a run.
NoQuery == [called |-> FALSE]
NoSample == [called |-> FALSE]
NoSave == [called |-> FALSE]
NoCatalog == [called |-> FALSE]
\* Nothing rendered below the form or in tab3.
NoView == [kind |-> "none"]

\* The filter controls of tab3 before they are rendered: every selectbox
\* shows its first option, "All", and there is no number input (num_max is
\* the max_value the number input was rendered with, 0 when there is none).
InitTab3 ==
    [difficulty |-> PyStr(ALL), filter_subject |-> PyStr(ALL),
     filter_topic |-> PyStr(ALL), type |-> PyStr(ALL), year |-> PyStr(ALL),
     tag |-> PyStr(ALL), num_questions |-> 0, num_max |-> 0]

\* The author picks another question type.  The year selectbox exists only
\* under PYQ, and starts at its default each time it is created.
SelectQuestionType(t) ==
    /\ t # widget.question_type
    /\ LET w == [widget EXCEPT !.question_type = t,
                               !.year = IF t = PYQ THEN DefaultYear ELSE None]
       IN  /\ widget' = w
           /\ session' = Tab1Selections(w, session)
    /\ shown' = {}
    /\ event' = [name |-> "select"]
    /\ q' = NoQuery
    /\ smp' = NoSample
    /\ sv' = NoSave
    /\ cat' = NoCatalog
    /\ view' = NoView
    /\ UNCHANGED <<store, saveCalls, saved, tab3>>

\* The author picks another year (the selectbox is enabled only under PYQ).
SelectYear(y) ==
    /\ widget.question_type = PYQ
    /\ PyInt(y) # widget.year
    /\ LET w == [widget EXCEPT !.year = PyInt(y)]
       IN  /\ widget' = w
           /\ session' = Tab1Selections(w, session)
    /\ shown' = {}
    /\ event' = [name |-> "select"]
    /\ q' = NoQuery
    /\ smp' = NoSample
    /\ sv' = NoSave
    /\ cat' = NoCatalog
    /\ view' = NoView
    /\ UNCHANGED <<store, saveCalls, saved, tab3>>

\* The author picks another subject; the topic selectbox is rebuilt from
\* the topics of that subject and shows the first of them.
SelectSubject(sub) ==
    /\ sub # widget.subject
    /\ LET w == [widget EXCEPT !.subject = sub, !.topic = SyllabusTopics(sub)[1]]
       IN  /\ widget' = w
           /\ session' = Tab1Selections(w, session)
    /\ shown' = {}
    /\ event' = [name |-> "select"]
    /\ q' = NoQuery
    /\ smp' = NoSample
    /\ sv' = NoSave
    /\ cat' = NoCatalog
    /\ view' = NoView
    /\ UNCHANGED <<store, saveCalls, saved, tab3>>

\* The author picks another topic of the selected subject.
SelectTopic(top) ==
    /\ top \in Range(SyllabusTopics(widget.subject))
    /\ top # widget.topic
    /\ LET w == [widget EXCEPT !.topic = top]
       IN  /\ widget' = w
           /\ session' = Tab1Selections(w, session)
    /\ shown' = {}
    /\ event' = [name |-> "select"]
    /\ q' = NoQuery
    /\ smp' = NoSample
    /\ sv' = NoSave
    /\ cat' = NoCatalog
    /\ view' = NoView
    /\ UNCHANGED <<store, saveCalls, saved, tab3>>

----------------------------------------------------------------------------
(* tab1 of main(): the image of the question *)

\* img_str: the uploaded file with its background whitened, saved as PNG
\* and base64-encoded; a non-empty string that the file determines.
ImgStr(file) == <<"P", "N", "G", ":">> \o file

\* The author puts a file into the uploader, or takes the file out of it
\* (x is None).  st.session_state["question_image"] is not touched.
UploadImage(x) ==
    /\ x # widget.uploaded_img
    /\ LET w == [widget EXCEPT !.uploaded_img = x]
       IN  /\ widget' = w
           /\ session' = Tab1Selections(w, session)
    /\ shown' = {}
    /\ event' = [name |-> "upload"]
    /\ q' = NoQuery
    /\ smp' = NoSample
    /\ sv' = NoSave
    /\ cat' = NoCatalog
    /\ view' = NoView
    /\ UNCHANGED <<store, saveCalls, saved, tab3>>

\* The author presses "Use This Image in Question"; the button exists
\* only while the uploader holds a file.
UseImage ==
    /\ widget.uploaded_img # None
    /\ session' = Set(Tab1Selections(widget, session), "question_image",
                      PyStr(ImgStr(widget.uploaded_img.v)))
    /\ shown' = {<<"success", MSG_IMAGE_ADDED>>}
    /\ event' = [name |-> "use_image"]
    /\ q' = NoQuery
    /\ smp' = NoSample
    /\ sv' = NoSave
    /\ cat' = NoCatalog
    /\ view' = NoView
    /\ UNCHANGED <<store, saveCalls, saved, widget, tab3>>

\* The author presses "Remove Image"; the button exists only while
\* st.session_state holds an image.  The script is run again at once.
RemoveImage ==
    /\ Truthy(Get(session, "question_image", None))
    /\ session' = Tab1Selections(widget, Del(Tab1Selections(widget, session),
                                             "question_image"))
    /\ shown' = {}
    /\ event' = [name |-> "remove_image"]
    /\ q' = NoQuery
    /\ smp' = NoSample
    /\ sv' = NoSave
    /\ cat' = NoCatalog
    /\ view' = NoView
    /\ UNCHANGED <<store, saveCalls, saved, widget, tab3>>

----------------------------------------------------------------------------
(* save_mcq_to_firebase *)

\* What the store does with a call: it serves it, or the call raises.
StoreOutcomes == {"ok", "unavailable"}

\* The identifier Firestore assigns to a new document.
NewId(st) == "d" \o ToString(Len(st) + 1)

\* mcq_data after the two timestamps are added; datetime.now() is the
\* number of the save call.
Stamped(data, now) ==
    Set(Set(data, "created_at", PyInt(now)), "updated_at", PyInt(now))

\* An add() that writes the document twice.
Add_Twice(st, data, outcome) ==
    IF outcome = "ok"
    THEN [store |-> Append(Append(st, [id |-> NewId(st), data |-> data]),
                           [id |-> NewId(Append(st, data)), data |-> data]),
          id |-> NewId(st), raised |-> ""]
    ELSE [store |-> st, id |-> "", raised |-> outcome]

\* db.collection('mcqs').add(data): the store after the call, the new
\* document's identifier, and the message of the exception raised ("" when
\* none).  A call that raises has added nothing.
Add(st, data, outcome) ==
    IF outcome = "ok"
    THEN [store |-> Append(st, [id |-> NewId(st), data |-> data]),
          id |-> NewId(st), raised |-> ""]
    ELSE [store |-> st, id |-> "", raised |-> outcome]

\* A save that calls add() a second time when the first call raised.
save_mcq_to_firebase_Retry(st, data, now, outcome) ==
    LET a == Add(st, Stamped(data, now), outcome)
        b == Add(a.store, Stamped(data, now), "ok")
    IN  IF a.raised = ""
        THEN [ret |-> <<TRUE, a.id>>, store |-> a.store, adds |-> 1]
        ELSE [ret |-> <<TRUE, b.id>>, store |-> b.store, adds |-> 2]

\* Returns the pair (success, result), the store after the call and the
\* number of add() calls made: one, whose exception is caught and turned
\* into (False, str(e)).
save_mcq_to_firebase(st, data, now, outcome) ==
    LET a == Add(st, Stamped(data, now), outcome)
    IN  IF a.raised = ""
        THEN [ret |-> <<TRUE, a.id>>, store |-> a.store, adds |-> 1]
        ELSE [ret |-> <<FALSE, a.raised>>, store |-> a.store, adds |-> 1]

----------------------------------------------------------------------------
(* tab1 of main(): the form and its submission *)

\* The six inputs marked with * that the validation reads.
RequiredFields ==
    {"question", "option_a", "option_b", "option_c", "option_d", "solution"}

\* A validation that forgets the solution.
MissingRequired_NoSolution(form) ==
    \E f \in RequiredFields \ {"solution"} : ~Truthy(PyStr(form[f]))

\* not all([question, option_a, option_b, option_c, option_d, solution])
MissingRequired(form) == \E f \in RequiredFields : ~Truthy(PyStr(form[f]))

\* [tag.strip() for tag in tags.split(",")] if tags else []
TagList(tags) ==
    IF Truthy(PyStr(tags))
    THEN [i \in DOMAIN Split(tags) |-> Strip(Split(tags)[i])]
    ELSE <<>>

\* "year": yr, whatever the question type.
YearField_Always(q_type, yr) == yr

\* "year": yr if q_type == "PYQ" else None
YearField(q_type, yr) == IF PyEq(q_type, PyStr(PYQ)) THEN yr ELSE None

\* The dict prepared for Firebase.
mcq_data(form, q_type, yr, subj, topic) ==
    [question |-> PyStr(Strip(form.question)),
     options |-> [A |-> PyStr(Strip(form.option_a)),
                  B |-> PyStr(Strip(form.option_b)),
                  C |-> PyStr(Strip(form.option_c)),
                  D |-> PyStr(Strip(form.option_d))],
     correct_answer |-> PyStr(<<form.correct_answer>>),
     difficulty |-> PyStr(form.difficulty),
     solution |-> PyStr(Strip(form.solution)),
     question_type |-> q_type,
     year |-> YearField(q_type, yr),
     subject |-> IF Truthy(subj) /\ Truthy(topic)
                 THEN PyStr(subj.v \o <<" ", "-", " ">> \o topic.v)
                 ELSE None,
     subject_name |-> subj,
     topic_name |-> topic,
     tags |-> TagList(form.tags)]

\* if st.session_state.get("question_image"): mcq_data["question_image"] = ...
WithImage(data, ss) ==
    IF Truthy(Get(ss, "question_image", None))
    THEN Set(data, "question_image", Get(ss, "question_image", None))
    ELSE data

\* A submission path that keeps the image in the session after the save.
AfterSave_KeepImage(ss, success) == ss

\* st.session_state after the save returned: a successful save deletes
\* "question_image", a failed one leaves the session as it is.
AfterSave(ss, success) ==
    IF success /\ "question_image" \in DOMAIN ss THEN Del(ss, "question_image") ELSE ss

\* The validation of a submission: the message of the branch taken, or
\* "" when the submission goes on to the save.
Validate(form, q_type, yr) ==
    IF MissingRequired(form) THEN MSG_REQUIRED
    ELSE IF PyEq(q_type, PyStr(PYQ)) /\ ~Truthy(yr) THEN MSG_YEAR
    ELSE ""

\* The author presses "Save MCQ": one script run with submitted = True.
Submit(form, outcome) ==
    /\ LET ss == Tab1Selections(widget, session)
           q_type == Get(ss, "question_type", PyStr(QUESTION_BANK))
           yr == Get(ss, "year", None)
           subj == Get(ss, "selected_subject", PyStr(<<>>))
           topic == Get(ss, "selected_topic", PyStr(<<>>))
           msg == Validate(form, q_type, yr)
           r == save_mcq_to_firebase(
                    store, WithImage(mcq_data(form, q_type, yr, subj, topic), ss),
                    saveCalls + 1, outcome)
       IN  /\ session' = IF msg # "" THEN ss ELSE AfterSave(ss, r.ret[1])
           /\ event' = [name |-> "submit", form |-> form, outcome |-> outcome]
           /\ IF msg # ""
              THEN /\ shown' = {<<"error", msg>>}
                   /\ sv' = NoSave
                   /\ UNCHANGED <<store, saveCalls, saved>>
              ELSE /\ saveCalls < MaxSaves
                   /\ store' = r.store
                   /\ saveCalls' = saveCalls + 1
                   /\ sv' = [called |-> TRUE, ret |-> r.ret, adds |-> r.adds]
                   /\ IF r.ret[1]
                      THEN /\ shown' = {<<"success", MSG_SAVED \o r.ret[2]>>}
                           /\ saved' = Append(saved,
                                  [doc_id |-> r.ret[2],
                                   question_type |-> widget.question_type,
                                   year |-> widget.year])
                      ELSE /\ shown' = {<<"error", MSG_SAVE_ERROR \o r.ret[2]>>}
                           /\ saved' = saved
    /\ q' = NoQuery
    /\ smp' = NoSample
    /\ cat' = NoCatalog
    /\ view' = NoView
    /\ UNCHANGED <<widget, tab3>>

----------------------------------------------------------------------------
(* query_mcqs_with_filters_firebase *)

\* The keyword arguments of a call without arguments: every default is None.
NoArgs ==
    [difficulty |-> None, subject |-> None, subject_name |-> None,
     topic_name |-> None, question_type |-> None, year |-> None, tags |-> None]

\* The guard of every filter: `x and x != "All"`.
Active(x) == Truthy(x) /\ ~PyEq(x, PyStr(ALL))

\* query.where(field, '==', value): the documents that have the field with
\* an equal value of the same type.
Where(docs, field, value) ==
    SelectSeq(docs, LAMBDA d : field \in DOMAIN d.data /\ PyEq(d.data[field], value))

\* A chain of where() calls that applies subject_name and subject both.
Filtered_BothSubjects(st, a) ==
    LET q1 == IF Active(a.difficulty) THEN Where(st, "difficulty", a.difficulty) ELSE st
        q2 == IF Active(a.subject_name) THEN Where(q1, "subject_name", a.subject_name)
              ELSE q1
        q2b == IF Active(a.subject) THEN Where(q2, "subject", a.subject) ELSE q2
        q3 == IF Active(a.topic_name) THEN Where(q2b, "topic_name", a.topic_name) ELSE q2b
        q4 == IF Active(a.question_type)
              THEN Where(q3, "question_type", a.question_type) ELSE q3
    IN  IF Active(a.year) THEN Where(q4, "year", a.year) ELSE q4

\* A chain of where() calls that reads the legacy subject first.
Filtered_LegacyFirst(st, a) ==
    LET q1 == IF Active(a.difficulty) THEN Where(st, "difficulty", a.difficulty) ELSE st
        q2 == IF Active(a.subject) THEN Where(q1, "subject", a.subject)
              ELSE IF Active(a.subject_name)
              THEN Where(q1, "subject_name", a.subject_name)
              ELSE q1
        q3 == IF Active(a.topic_name) THEN Where(q2, "topic_name", a.topic_name) ELSE q2
        q4 == IF Active(a.question_type)
              THEN Where(q3, "question_type", a.question_type) ELSE q3
    IN  IF Active(a.year) THEN Where(q4, "year", a.year) ELSE q4

\* The chain of where() calls; subject_name is used if given, otherwise
\* the legacy subject field.
Filtered(st, a) ==
    LET q1 == IF Active(a.difficulty) THEN Where(st, "difficulty", a.difficulty) ELSE st
        q2 == IF Active(a.subject_name) THEN Where(q1, "subject_name", a.subject_name)
              ELSE IF Active(a.subject) THEN Where(q1, "subject", a.subject)
              ELSE q1
        q3 == IF Active(a.topic_name) THEN Where(q2, "topic_name", a.topic_name) ELSE q2
        q4 == IF Active(a.question_type)
              THEN Where(q3, "question_type", a.question_type) ELSE q3
    IN  IF Active(a.year) THEN Where(q4, "year", a.year) ELSE q4

\* data = doc.to_dict(); data['doc_id'] = doc.id
DocDict(doc) == Set(doc.data, "doc_id", doc.id)

\* A tag filter that overwrites the record's tags with their lower case.
TagFiltered_LowersRecord(doc, tags) ==
    LET data == DocDict(doc)
        mcq_tags == [i \in DOMAIN Get(data, "tags", <<>>) |->
                         Lower(Get(data, "tags", <<>>)[i])]
    IN  IF Active(tags)
        THEN IF Lower(tags.v) \notin Range(mcq_tags)
             THEN <<>> ELSE <<Set(data, "tags", mcq_tags)>>
        ELSE <<data>>

\* A tag filter that forgets to lower-case the requested tag.
TagFiltered_RequestNotLowered(doc, tags) ==
    LET data == DocDict(doc)
        mcq_tags == {Lower(t) : t \in Range(Get(data, "tags", <<>>))}
    IN  IF Active(tags) /\ tags.v \notin mcq_tags THEN <<>> ELSE <<data>>

\* One round of the loop over the stream: the dict appended to mcqs, or
\* nothing when the tag filter skips the document.
TagFiltered(doc, tags) ==
    LET data == DocDict(doc)
        mcq_tags == {Lower(t) : t \in Range(Get(data, "tags", <<>>))}
    IN  IF Active(tags) /\ Lower(tags.v) \notin mcq_tags THEN <<>> ELSE <<data>>

RECURSIVE Collect(_, _)
Collect(docs, tags) ==
    IF docs = <<>> THEN <<>>
    ELSE TagFiltered(Head(docs), tags) \o Collect(Tail(docs), tags)

\* The returned list and the message handed to st.error ("" when none):
\* any exception of the store is caught, reported and answered with [].
query_mcqs_with_filters_firebase(st, a, outcome) ==
    IF outcome = "ok"
    THEN [ret |-> Collect(Filtered(st, a), a.tags), error |-> ""]
    ELSE [ret |-> <<>>, error |-> MSG_QUERY_ERROR \o outcome]

\* A call of the function with the keyword arguments a.
Query(a, outcome) ==
    /\ LET r == query_mcqs_with_filters_firebase(store, a, outcome)
       IN  /\ q' = [called |-> TRUE, args |-> a, outcome |-> outcome, ret |-> r.ret]
           /\ shown' = IF r.error = "" THEN {} ELSE {<<"error", r.error>>}
    /\ event' = [name |-> "query"]
    /\ smp' = NoSample
    /\ sv' = NoSave
    /\ cat' = NoCatalog
    /\ view' = NoView
    /\ UNCHANGED <<store, saveCalls, session, widget, saved, tab3>>

----------------------------------------------------------------------------
(* get_filter_options_firebase *)

\* The characters of the model's strings in the order of their code points.
CodePoints ==
    <<" ", ",", "-", "A", "B", "D", "E", "H", "K", "L", "M", "O", "P", "Q", "Y",
      "a", "b", "d", "e", "g", "h", "i", "k", "l", "m", "n", "o", "p", "q", "r",
      "s", "t", "u", "y">>

\* ord(c), up to the gaps between the characters that occur
Ord(c) == CHOOSE i \in DOMAIN CodePoints : CodePoints[i] = c

\* s < t of two str: the first differing character decides, a proper
\* prefix is smaller.
RECURSIVE StrLess(_, _)
StrLess(s, t) ==
    IF t = <<>> THEN FALSE
    ELSE IF s = <<>> THEN TRUE
    ELSE IF Head(s) = Head(t) THEN StrLess(Tail(s), Tail(t))
    ELSE Ord(Head(s)) < Ord(Head(t))

\* x < y of two str or of two int
PyLess(x, y) == IF x.k = "str" THEN StrLess(x.v, y.v) ELSE x.v < y.v

\* sorted(list(values)) and sorted(list(values), reverse=True)
RECURSIVE Sorted(_, _)
Sorted(values, reverse) ==
    IF values = {} THEN <<>>
    ELSE LET m == CHOOSE x \in values : \A y \in values \ {x} : PyLess(x, y)
         IN  IF reverse THEN Append(Sorted(values \ {m}, reverse), m)
             ELSE <<m>> \o Sorted(values \ {m}, reverse)

\* The set built by `if data.get(field): values.add(data[field])` over the
\* stream: a field that is absent, None or otherwise falsy adds nothing.
Observed(st, field) ==
    {st[i].data[field] :
        i \in {j \in DOMAIN st : Truthy(Get(st[j].data, field, None))}}

\* The set built by `if data.get('tags'): tags.update(data['tags'])`.
ObservedTags(st) ==
    {PyStr(t) : t \in UNION {Range(Get(st[i].data, "tags", <<>>)) : i \in DOMAIN st}}

\* sorted() raises TypeError on values of different types.
Comparable(values) == \A x, y \in values : x.k = y.k

EmptyCatalog ==
    [difficulties |-> <<>>, subjects |-> <<>>, types |-> <<>>, years |-> <<>>,
     tags |-> <<>>]

\* A catalog whose years are sorted like the other lists.
get_filter_options_firebase_YearsAscending(st, outcome) ==
    IF outcome # "ok"
    THEN [ret |-> EmptyCatalog, error |-> MSG_CATALOG_ERROR \o outcome]
    ELSE [ret |-> [difficulties |-> Sorted(Observed(st, "difficulty"), FALSE),
                   subjects |-> Sorted(Observed(st, "subject"), FALSE),
                   types |-> Sorted(Observed(st, "question_type"), FALSE),
                   years |-> Sorted(Observed(st, "year"), FALSE),
                   tags |-> Sorted(ObservedTags(st), FALSE)],
          error |-> ""]

\* The returned dict and the message handed to st.error ("" when none):
\* any exception, of the store or of sorted(), is caught, reported and
\* answered with five empty lists.
get_filter_options_firebase(st, outcome) ==
    IF outcome # "ok"
    THEN [ret |-> EmptyCatalog, error |-> MSG_CATALOG_ERROR \o outcome]
    ELSE IF \E f \in {"difficulty", "subject", "question_type", "year"} :
                ~Comparable(Observed(st, f))
    THEN [ret |-> EmptyCatalog, error |-> MSG_CATALOG_ERROR \o "TypeError"]
    ELSE [ret |-> [difficulties |-> Sorted(Observed(st, "difficulty"), FALSE),
                   subjects |-> Sorted(Observed(st, "subject"), FALSE),
                   types |-> Sorted(Observed(st, "question_type"), FALSE),
                   years |-> Sorted(Observed(st, "year"), TRUE),
                   tags |-> Sorted(ObservedTags(st), FALSE)],
          error |-> ""]

\* A call of the function.
Catalog(outcome) ==
    /\ LET r == get_filter_options_firebase(store, outcome)
       IN  /\ cat' = [called |-> TRUE, outcome |-> outcome, ret |-> r.ret]
           /\ shown' = IF r.error = "" THEN {} ELSE {<<"error", r.error>>}
    /\ event' = [name |-> "catalog"]
    /\ q' = NoQuery
    /\ smp' = NoSample
    /\ sv' = NoSave
    /\ view' = NoView
    /\ UNCHANGED <<store, saveCalls, session, widget, saved, tab3>>

----------------------------------------------------------------------------
(* select_random_mcqs_firebase *)

\* Sampling with replacement: positions may repeat.
RandomSample_WithReplacement(population, k) ==
    {[i \in 1..k |-> population[p[i]]] : p \in [1..k -> DOMAIN population]}

\* random.sample(population, k): every list of k elements taken at k
\* distinct positions of the population.
RandomSample(population, k) ==
    {[i \in 1..k |-> population[p[i]]] :
        p \in {f \in [1..k -> DOMAIN population] :
                   \A i, j \in 1..k : i # j => f[i] # f[j]}}

\* The test written as len(mcqs) < count.
select_random_mcqs_firebase_Less(mcqs, count) ==
    IF Len(mcqs) < count THEN {mcqs} ELSE RandomSample(mcqs, count)

\* The set of lists the call may return.
select_random_mcqs_firebase(mcqs, count) ==
    IF Len(mcqs) <= count THEN {mcqs} ELSE RandomSample(mcqs, count)

\* A call of the function.
Sample(mcqs, count) ==
    /\ \E r \in select_random_mcqs_firebase(mcqs, count) :
           smp' = [called |-> TRUE, mcqs |-> mcqs, count |-> count, ret |-> r]
    /\ event' = [name |-> "sample"]
    /\ shown' = {}
    /\ q' = NoQuery
    /\ sv' = NoSave
    /\ cat' = NoCatalog
    /\ view' = NoView
    /\ UNCHANGED <<store, saveCalls, session, widget, saved, tab3>>

----------------------------------------------------------------------------
(* main(): the button "View Recent MCQs" *)

\* .limit(5)
RecentLimit == 5

\* order_by('created_at', direction=DESCENDING): the documents that have
\* the field, the latest first.
RECURSIVE Descending_created_at(_)
Descending_created_at(docs) ==
    IF docs = {} THEN <<>>
    ELSE LET m == CHOOSE d \in docs :
                      \A e \in docs : e.data.created_at.v <= d.data.created_at.v
         IN  <<m>> \o Descending_created_at(docs \ {m})

\* The dicts the expanders are rendered from.
Recent(st) ==
    LET docs == Descending_created_at(
                    {d \in Range(st) : "created_at" \in DOMAIN d.data})
    IN  [i \in 1..Min(RecentLimit, Len(docs)) |-> docs[i].data]

\* The author presses "View Recent MCQs": the store is read and nothing
\* else; an exception is caught and shown.
ViewRecent(outcome) ==
    /\ IF outcome = "ok"
       THEN /\ view' = [kind |-> "recent", docs |-> Recent(store)]
            /\ shown' = {}
       ELSE /\ view' = [kind |-> "recent", docs |-> <<>>]
            /\ shown' = {<<"error", MSG_RECENT_ERROR \o outcome>>}
    /\ event' = [name |-> "recent"]
    /\ session' = Tab1Selections(widget, session)
    /\ q' = NoQuery
    /\ smp' = NoSample
    /\ sv' = NoSave
    /\ cat' = NoCatalog
    /\ UNCHANGED <<store, saveCalls, saved, widget, tab3>>

----------------------------------------------------------------------------
(* tab3 of main(): the random question selector *)

Digits == <<"0", "1", "2", "3", "4", "5", "6", "7", "8", "9">>

\* str(n) of an int n >= 0
RECURSIVE IntStr(_)
IntStr(n) ==
    IF n < 10 THEN <<Digits[n + 1]>>
    ELSE IntStr(n \div 10) \o <<Digits[(n % 10) + 1]>>

\* int(s) of a string of digits
RECURSIVE StrInt(_)
StrInt(s) ==
    LET d == (CHOOSE i \in DOMAIN Digits : Digits[i] = s[Len(s)]) - 1
    IN  IF Len(s) = 1 THEN d ELSE 10 * StrInt(SubSeq(s, 1, Len(s) - 1)) + d

\* What the store does with the three reads of one run of tab3.
RunOutcomes == [catalog : StoreOutcomes, total : StoreOutcomes, filtered : StoreOutcomes]

\* The options of the selectboxes: "All", then the values of the catalog
\* or of the syllabus; the topic selectbox offers the topics of the
\* subject chosen and is disabled, with "All" only, when none is chosen.
Options(filter_options, filter_subject) ==
    [difficulty |-> <<PyStr(ALL)>> \o filter_options.difficulties,
     filter_subject |-> <<PyStr(ALL)>> \o [i \in DOMAIN SyllabusSubjects |->
                                              PyStr(SyllabusSubjects[i])],
     filter_topic |-> IF filter_subject = PyStr(ALL) THEN <<PyStr(ALL)>>
                      ELSE <<PyStr(ALL)>> \o
                           [i \in DOMAIN SyllabusTopics(filter_subject.v) |->
                               PyStr(SyllabusTopics(filter_subject.v)[i])],
     type |-> <<PyStr(ALL)>> \o filter_options.types,
     year |-> <<PyStr(ALL)>> \o [i \in DOMAIN filter_options.years |->
                                    PyStr(IntStr(filter_options.years[i].v))],
     tag |-> <<PyStr(ALL)>> \o filter_options.tags]

NoOptions ==
    [difficulty |-> <<>>, filter_subject |-> <<>>, filter_topic |-> <<>>,
     type |-> <<>>, year |-> <<>>, tag |-> <<>>]

\* The value a selectbox returns: the value it showed before the run if
\* the selectbox is built with the same options, one of them, and else its
\* first option.
Selected(value, options) == IF value \in Range(options) THEN value ELSE options[1]

\* x if x != "All" else None
NoneIfAll(x) == IF x # PyStr(ALL) THEN x ELSE None

\* selected_year: int(selected_year) unless it is "All"
SelectedYear(year) == IF year # PyStr(ALL) THEN PyInt(StrInt(year.v)) ELSE year

\* The values the six selectboxes return in a run that builds them from
\* filter_options, when they held the values ctl before the run.
Controls(ctl, filter_options) ==
    LET subj == Selected(ctl.filter_subject,
                         Options(filter_options, ctl.filter_subject).filter_subject)
    IN  [difficulty |-> Selected(ctl.difficulty,
                                 Options(filter_options, subj).difficulty),
         filter_subject |-> subj,
         filter_topic |-> Selected(ctl.filter_topic,
                                   Options(filter_options, subj).filter_topic),
         type |-> Selected(ctl.type, Options(filter_options, subj).type),
         year |-> Selected(ctl.year, Options(filter_options, subj).year),
         tag |-> Selected(ctl.tag, Options(filter_options, subj).tag)]

\* The keyword arguments of the filtered query.
FilterArgs(c) ==
    [difficulty |-> NoneIfAll(c.difficulty),
     subject |-> None,
     subject_name |-> NoneIfAll(c.filter_subject),
     topic_name |-> NoneIfAll(c.filter_topic),
     question_type |-> NoneIfAll(c.type),
     year |-> NoneIfAll(SelectedYear(c.year)),
     tags |-> NoneIfAll(c.tag)]

\* The number input: built with max_value = n, it keeps its number while n
\* is the same and starts at min(5, n) when n is another; there is none
\* when the query returns nothing.
NumberInput(ctl, n) ==
    [num_questions |-> IF n = 0 THEN 0
                       ELSE IF ctl.num_max = n THEN ctl.num_questions
                       ELSE Min(5, n),
     num_max |-> n]

\* `not total_mcqs`: the query without filters returned nothing.
NoTotal(outs) == query_mcqs_with_filters_firebase(store, NoArgs, outs.total).ret = <<>>

\* The messages of the three reads and of the two empty results.
Tab3Messages(outs, filtered) ==
    {<<"error", m>> :
        m \in {get_filter_options_firebase(store, outs.catalog).error,
               query_mcqs_with_filters_firebase(store, NoArgs, outs.total).error}
              \ {""}}
    \cup (IF NoTotal(outs) THEN {<<"info", MSG_NO_MCQS>>}
          ELSE {<<"error", MSG_QUERY_ERROR \o outs.filtered>> :
                    x \in {outs.filtered} \ {"ok"}}
               \cup (IF filtered = <<>> THEN {<<"warning", MSG_NO_MATCH>>} ELSE {}))

\* One run of tab3 down to the number input, from the values ctl the
\* controls hold when the run starts: the catalog, the query without
\* filters and, unless that returned nothing, the controls and the query
\* with their filters.  Without records no control is built.
Tab3Reads(ctl, outs) ==
    /\ cat' = [called |-> TRUE, outcome |-> outs.catalog,
               ret |-> get_filter_options_firebase(store, outs.catalog).ret]
    /\ q' = IF NoTotal(outs)
            THEN [called |-> TRUE, args |-> NoArgs, outcome |-> outs.total, ret |-> <<>>]
            ELSE [called |-> TRUE,
                  args |-> FilterArgs(Controls(ctl, cat'.ret)),
                  outcome |-> outs.filtered,
                  ret |-> query_mcqs_with_filters_firebase(
                              store, FilterArgs(Controls(ctl, cat'.ret)),
                              outs.filtered).ret]
    /\ tab3' = IF NoTotal(outs) THEN InitTab3
               ELSE [x \in DOMAIN InitTab3 |->
                        IF x \in {"num_questions", "num_max"}
                        THEN NumberInput(ctl, Len(q'.ret))[x]
                        ELSE Controls(ctl, cat'.ret)[x]]
    /\ shown' = Tab3Messages(outs, q'.ret)
    /\ sv' = NoSave
    /\ UNCHANGED <<store, saveCalls, saved, widget>>

\* The block "Selected Questions" is rendered: the query returned records
\* and st.session_state holds a selection that is not empty.
Displayed(filtered, ss) ==
    /\ filtered # <<>>
    /\ Get(ss, "selection_generated_firebase", FALSE)
    /\ Get(ss, "selected_mcqs_firebase", <<>>) # <<>>

\* download_data, but for generated_at: the filters are the values of the
\* controls of tab3, except "subject", which is selected_subject of tab1.
DownloadData(ctl, selected_mcqs, selected_subject) ==
    [selection_info |->
         [total_questions |-> Len(selected_mcqs),
          filters_applied |->
              [difficulty |-> ctl.difficulty,
               subject |-> PyStr(selected_subject),
               question_type |-> ctl.type,
               year |-> SelectedYear(ctl.year)],
          source |-> "Firebase"],
     questions |-> selected_mcqs]

\* A script run is about to start: nothing is rendered yet.
Pending == [kind |-> "pending"]

\* What the run has rendered when it ends.
Tab3Render(outs) ==
    view' = [kind |-> "selector",
             options |-> IF NoTotal(outs) THEN NoOptions
                         ELSE Options(cat'.ret, tab3'.filter_subject),
             filtered |-> q'.ret,
             displayed |-> Displayed(q'.ret, session'),
             selected_mcqs |-> IF Displayed(q'.ret, session')
                               THEN session'.selected_mcqs_firebase ELSE <<>>,
             download_data |->
                 IF Displayed(q'.ret, session')
                 THEN DownloadData(tab3', session'.selected_mcqs_firebase,
                                   widget.subject)
                 ELSE None]

\* A script run with no input of the author: the first one, and the one
\* st.rerun() starts.
Rerun(outs) ==
    /\ view = Pending
    /\ Tab3Reads(tab3, outs)
    /\ session' = session
    /\ smp' = NoSample
    /\ Tab3Render(outs)
    /\ event' = [name |-> "run"]

\* The author picks another option of one of the six selectboxes.
SelectFilter(control, value, outs) ==
    /\ view.kind = "selector"
    /\ value \in Range(view.options[control])
    /\ value # tab3[control]
    /\ Tab3Reads([tab3 EXCEPT ![control] = value], outs)
    /\ session' = session
    /\ smp' = NoSample
    /\ Tab3Render(outs)
    /\ event' = [name |-> "filter"]

\* The author types another number into "Number of questions to select".
SetNumQuestions(n, outs) ==
    /\ view.kind = "selector"
    /\ n \in 1..tab3.num_max
    /\ n # tab3.num_questions
    /\ Tab3Reads([tab3 EXCEPT !.num_questions = n], outs)
    /\ session' = session
    /\ smp' = NoSample
    /\ Tab3Render(outs)
    /\ event' = [name |-> "number"]

\* The author presses "Generate Random Selection"; the button is rendered
\* while the query returns records.
Generate(outs) ==
    /\ view.kind = "selector"
    /\ view.filtered # <<>>
    /\ Tab3Reads(tab3, outs)
    /\ IF q'.ret = <<>>
       THEN /\ session' = session
            /\ smp' = NoSample
       ELSE \E r \in select_random_mcqs_firebase(q'.ret, tab3'.num_questions) :
                /\ session' = Set(Set(session, "selected_mcqs_firebase", r),
                                  "selection_generated_firebase", TRUE)
                /\ smp' = [called |-> TRUE, mcqs |-> q'.ret,
                           count |-> tab3'.num_questions, ret |-> r]
    /\ Tab3Render(outs)
    /\ event' = [name |-> "generate"]

\* The author presses "Generate New Selection"; the button is rendered
\* inside the block "Selected Questions".  The run that reaches the button
\* stores a new selection and calls st.rerun().
GenerateNew(outs) ==
    /\ view.kind = "selector"
    /\ view.displayed
    /\ Tab3Reads(tab3, outs)
    /\ IF ~Displayed(q'.ret, session)
       THEN /\ session' = session
            /\ smp' = NoSample
            /\ Tab3Render(outs)
       ELSE \E r \in select_random_mcqs_firebase(q'.ret, tab3'.num_questions) :
                /\ session' = Set(session, "selected_mcqs_firebase", r)
                /\ smp' = [called |-> TRUE, mcqs |-> q'.ret,
                           count |-> tab3'.num_questions, ret |-> r]
                /\ view' = Pending
    /\ event' = [name |-> "generate_new"]

----------------------------------------------------------------------------
(* Specification of the authoring session (tab1) *)

Init ==
    /\ store = <<>>
    /\ saveCalls = 0
    /\ widget = InitWidget
    /\ session = Tab1Selections(InitWidget, EmptyDict)
    /\ shown = {}
    /\ event = [name |-> "run"]
    /\ saved = <<>>
    /\ q = NoQuery
    /\ smp = NoSample
    /\ sv = NoSave
    /\ cat = NoCatalog
    /\ tab3 = InitTab3
    /\ view = NoView

\* A form with every required field filled in.
GoodForm(difficulty, tags) ==
    [question |-> <<"q">>, option_a |-> <<"q">>, option_b |-> <<"q">>,
     option_c |-> <<"q">>, option_d |-> <<"q">>, solution |-> <<"q">>,
     correct_answer |-> OptionKeys[1], difficulty |-> difficulty, tags |-> tags]

\* What the author may type into a required field: nothing, white space,
\* or text with white space around it.
TextInputs == {<<>>, <<" ">>, <<" ", "q", " ">>}

\* The submissions of the authoring specification: a complete form, with
\* one of the required fields replaced by any of the text inputs.
AuthorForms ==
    {[GoodForm(DifficultyOptions[1], <<>>) EXCEPT ![f] = t] :
        f \in RequiredFields, t \in TextInputs}

\* The author changes the question type and submits; the year selectbox
\* keeps the default it is created with.
NextAuthor ==
    \/ \E t \in Range(QuestionTypeOptions) : SelectQuestionType(t)
    \/ \E form \in AuthorForms, outcome \in StoreOutcomes : Submit(form, outcome)

SpecAuthor == Init /\ [][NextAuthor]_vars

----------------------------------------------------------------------------
(* Specification of the image of a question: the uploader, the two image   *)
(* buttons and submissions                                                 *)

\* The files the author may upload.
UploadFiles == {<<"f", "1">>, <<"f", "2">>}

\* A complete form, and a form with no solution.
ImageForms ==
    {GoodForm(DifficultyOptions[1], <<>>),
     [GoodForm(DifficultyOptions[1], <<>>) EXCEPT !.solution = <<>>]}

NextImage ==
    \/ \E x \in {None} \cup {PyStr(f) : f \in UploadFiles} : UploadImage(x)
    \/ UseImage
    \/ RemoveImage
    \/ \E form \in ImageForms, outcome \in StoreOutcomes : Submit(form, outcome)

SpecImage == Init /\ [][NextImage]_vars

----------------------------------------------------------------------------
(* Specification of the save/query round trip: the authoring session with  *)
(* complete forms, calls of the query with a year filter only, of the      *)
(* catalog and of the sampler on the records of the store, and the button  *)
(* "View Recent MCQs"                                                      *)

NextRoundTrip ==
    \/ \E t \in Range(QuestionTypeOptions) : SelectQuestionType(t)
    \/ \E y \in Range(year_options) : SelectYear(y)
    \/ \E sub \in Range(SyllabusSubjects) : SelectSubject(sub)
    \/ \E top \in {KINEMATICS, OPTICS, ALGEBRA} : SelectTopic(top)
    \/ \E outcome \in StoreOutcomes : Submit(GoodForm(DifficultyOptions[1], <<>>), outcome)
    \/ \E y \in Range(year_options), outcome \in StoreOutcomes :
          Query([NoArgs EXCEPT !.year = PyInt(y)], outcome)
    \/ \E outcome \in StoreOutcomes : Catalog(outcome)
    \/ \E outcome \in StoreOutcomes : ViewRecent(outcome)
    \/ \E count \in 1..MaxSaves :
          /\ store # <<>>
          /\ Sample(Collect(store, None), count)

SpecRoundTrip == Init /\ [][NextRoundTrip]_vars

----------------------------------------------------------------------------
(* Specification of the query: a store of documents written earlier, and   *)
(* calls of query_mcqs_with_filters_firebase and of                        *)
(* get_filter_options_firebase                                             *)

\* A document written before subject_name, topic_name and tags existed.
LegacyData ==
    [question |-> PyStr(<<"q">>),
     options |-> [A |-> PyStr(<<"q">>), B |-> PyStr(<<"q">>),
                  C |-> PyStr(<<"q">>), D |-> PyStr(<<"q">>)],
     correct_answer |-> PyStr(<<"A">>),
     difficulty |-> PyStr(HARD),
     solution |-> PyStr(<<"q">>),
     question_type |-> PyStr(QUESTION_BANK),
     year |-> None,
     subject |-> PyStr(PHYSICS \o <<" ", "-", " ">> \o KINEMATICS)]

\* The dicts the documents of an initial store are written from: four
\* built by the submission path, and the legacy one.
PoolData ==
    <<mcq_data(GoodForm(EASY, <<"a">>), PyStr(QUESTION_BANK), None,
               PyStr(PHYSICS), PyStr(KINEMATICS)),
      mcq_data(GoodForm(HARD, <<"A", ",", " ", "b">>), PyStr(PYQ), PyInt(2015),
               PyStr(PHYSICS), PyStr(OPTICS)),
      mcq_data(GoodForm(EASY, <<"a", "l", "l", ",">>), PyStr(PYQ), PyInt(2016),
               PyStr(MATHS), PyStr(ALGEBRA)),
      LegacyData,
      mcq_data(GoodForm(HARD, <<"A", "l", "l">>), PyStr(DUMMY), PyInt(2015),
               PyStr(PHYSICS), PyStr(KINEMATICS))>>

\* The store after the dicts PoolData[ks[1]], PoolData[ks[2]], ... were saved.
RECURSIVE StoreFrom(_)
StoreFrom(ks) ==
    IF ks = <<>> THEN <<>>
    ELSE LET st == StoreFrom(SubSeq(ks, 1, Len(ks) - 1))
         IN  save_mcq_to_firebase(st, PoolData[ks[Len(ks)]], Len(st) + 1, "ok").store

\* The increasing sequences over DOMAIN PoolData of length n.
RECURSIVE Increasing(_)
Increasing(n) ==
    IF n = 0 THEN {<<>>}
    ELSE {Append(ks, k) : ks \in Increasing(n - 1), k \in DOMAIN PoolData} 

InitialStores ==
    {StoreFrom(ks) : ks \in {x \in UNION {Increasing(n) : n \in 0..MaxDocs} :
                                \A i \in 1..(Len(x) - 1) : x[i] < x[i + 1]}}

InitQuery ==
    /\ store \in InitialStores
    /\ saveCalls = Len(store)
    /\ widget = InitWidget
    /\ session = Tab1Selections(InitWidget, EmptyDict)
    /\ shown = {}
    /\ event = [name |-> "run"]
    /\ saved = <<>>
    /\ q = NoQuery
    /\ smp = NoSample
    /\ sv = NoSave
    /\ cat = NoCatalog
    /\ tab3 = InitTab3
    /\ view = NoView

\* The tags asked for: "All", tags of the stored documents and other
\* letter-casings of them.
TagStrings ==
    {ALL, <<"a", "l", "l">>, <<"A", "L", "L">>, <<"a">>, <<"A">>, <<"b">>, <<"B">>, <<>>}

\* The keyword arguments of the calls: at most MaxGiven of them are given.
QueryArgs ==
    {a \in [difficulty : {None, PyStr(ALL), PyStr(EASY), PyStr(HARD)},
            subject_name : {None, PyStr(ALL), PyStr(PHYSICS), PyStr(MATHS), PyStr(<<>>)},
            subject : {None, PyStr(ALL), PyStr(PHYSICS \o <<" ", "-", " ">> \o KINEMATICS)},
            topic_name : {None, PyStr(ALL), PyStr(KINEMATICS)},
            question_type : {None, PyStr(ALL), PyStr(PYQ), PyStr(QUESTION_BANK)},
            year : {None, PyStr(ALL), PyInt(2015), PyInt(2016), PyInt(0)},
            tags : {None} \cup {PyStr(t) : t \in TagStrings}] :
        Cardinality({f \in DOMAIN a : a[f] # None}) <= MaxGiven}

\* A behaviour is one call on one store: a call reads nothing an earlier
\* call left behind.
NextQuery ==
    /\ ~q.called
    /\ ~cat.called
    /\ \/ \E a \in QueryArgs, outcome \in StoreOutcomes : Query(a, outcome)
       \/ \E outcome \in StoreOutcomes : Catalog(outcome)

SpecQuery == InitQuery /\ [][NextQuery]_vars

----------------------------------------------------------------------------
(* Specification of the selector: tab3 over a store of documents written   *)
(* earlier                                                                 *)

\* The stores of the selector: the first n dicts of PoolData were saved.
SelectorStores == {StoreFrom([i \in 1..n |-> i]) : n \in 0..MaxDocs}

\* The selectboxes the author changes.
SelectorControls == {"difficulty", "filter_subject", "filter_topic", "year"}

\* The values of their options.
SelectorValues ==
    {PyStr(x) : x \in {ALL, EASY, MEDIUM, HARD, PHYSICS, MATHS, KINEMATICS,
                       OPTICS, ALGEBRA}}
    \cup {PyStr(IntStr(y)) : y \in YearStart..(YearEnd - 1)}

\* The first script run is about to start.
InitSelector ==
    /\ store \in SelectorStores
    /\ saveCalls = Len(store)
    /\ widget = InitWidget
    /\ session = Tab1Selections(InitWidget, EmptyDict)
    /\ shown = {}
    /\ event = [name |-> "start"]
    /\ saved = <<>>
    /\ q = NoQuery
    /\ smp = NoSample
    /\ sv = NoSave
    /\ cat = NoCatalog
    /\ tab3 = InitTab3
    /\ view = Pending

NextSelector ==
    \/ \E outs \in RunOutcomes : Rerun(outs)
    \/ \E control \in SelectorControls, value \in SelectorValues, outs \in RunOutcomes :
          SelectFilter(control, value, outs)
    \/ \E n \in 1..MaxDocs, outs \in RunOutcomes : SetNumQuestions(n, outs)
    \/ \E outs \in RunOutcomes : Generate(outs)
    \/ \E outs \in RunOutcomes : GenerateNew(outs)

SpecSelector == InitSelector /\ [][NextSelector]_vars

----------------------------------------------------------------------------
(* Specification of the sampler: calls of select_random_mcqs_firebase on   *)
(* lists of query results                                                  *)

\* The dicts a query returns for a store of MaxRecords documents.
SamplePool ==
    Range(Collect(StoreFrom([i \in 1..MaxRecords |-> i]), None))

\* The lists handed to the sampler: no document occurs twice, as in every
\* list a query returns.
SampleLists ==
    UNION {{l \in [1..n -> SamplePool] : \A i, j \in 1..n : i # j => l[i] # l[j]} :
               n \in 0..MaxRecords}

\* count is a positive integer (the number input has min_value=1).
NextSample ==
    \E mcqs \in SampleLists, count \in 1..(MaxRecords + 1) : Sample(mcqs, count)

SpecSample == Init /\ [][NextSample]_vars

----------------------------------------------------------------------------
(* Claims about the query, checked under SpecQuery *)

\* A filter is given and is not "All".
Provided(x) == x # None /\ ~PyEq(x, PyStr(ALL))

\* A filter is given and is neither "All" nor empty (the empty string, 0).
ProvidedNonEmpty(x) ==
    /\ x # None
    /\ ~PyEq(x, PyStr(ALL))
    /\ ~PyEq(x, PyStr(<<>>))
    /\ ~PyEq(x, PyInt(0))

FieldIs(doc, f, x) == f \in DOMAIN doc.data /\ PyEq(doc.data[f], x)

HasTag(doc, t) ==
    /\ "tags" \in DOMAIN doc.data
    /\ \E i \in DOMAIN doc.data.tags : Lower(doc.data.tags[i]) = Lower(t)

\* The document satisfies every filter of a that Given accepts; of the two
\* subject filters, subject is read only when subject_name is not given.
Matches(doc, a, Given(_)) ==
    /\ \A f \in {"difficulty", "topic_name", "question_type", "year"} :
           Given(a[f]) => FieldIs(doc, f, a[f])
    /\ Given(a.subject_name) => FieldIs(doc, "subject_name", a.subject_name)
    /\ (~Given(a.subject_name) /\ Given(a.subject)) => FieldIs(doc, "subject", a.subject)
    /\ Given(a.tags) => HasTag(doc, a.tags.v)

Expected(a, Given(_)) ==
    {DocDict(store[i]) : i \in {j \in DOMAIN store : Matches(store[j], a, Given)}}

QueryAnswered == q.called /\ q.outcome = "ok"

\* C1: a failing store is told apart from "no matches": an empty list is
\* returned only when zero records match.
C1_EmptyOnlyWhenNoMatch ==
    (q.called /\ q.ret = <<>>) => Expected(q.args, ProvidedNonEmpty) = {}

\* C2 as stated: the query returns exactly the records that equal every
\* filter that is not None and not "All" (tag: lower-cased membership).
C2_ExactlyTheMatches_Original ==
    QueryAnswered =>
        /\ Range(q.ret) = Expected(q.args, Provided)
        /\ Len(q.ret) = Cardinality(Range(q.ret))

\* C2 amended: the query returns exactly the records that equal every
\* filter that is not None, not "All" and not empty ("" or 0); an empty
\* filter puts no constraint on its field either.
C2_ExactlyTheMatches ==
    QueryAnswered =>
        /\ Range(q.ret) = Expected(q.args, ProvidedNonEmpty)
        /\ Len(q.ret) = Cardinality(Range(q.ret))

\* C2 witness: a difficulty and a tag filter together select one of two
\* stored records.
C2_Witness ==
    /\ QueryAnswered
    /\ q.args.difficulty = PyStr(HARD)
    /\ q.args.tags = PyStr(<<"B">>)
    /\ Len(store) = 2
    /\ Len(q.ret) = 1

\* C3: the records returned under any filters are among those returned by
\* the query without filters on the same store.
C3_MonotonicNarrowing ==
    QueryAnswered =>
        Range(q.ret) \subseteq Range(query_mcqs_with_filters_firebase(store, NoArgs, "ok").ret)

\* C3 witness: a query with a tag filter returned some, not all, records.
C3_Witness ==
    /\ QueryAnswered
    /\ Active(q.args.tags)
    /\ Len(q.ret) = 1
    /\ Len(store) = 2

SameTagOtherCase(t, u) == Lower(t) = Lower(u)

\* C4 as stated: a query with a tag and the query with any other
\* letter-casing of that tag return the same set of records.
C4_TagCaseInsensitive_Original ==
    (QueryAnswered /\ q.args.tags # None) =>
        \A t \in TagStrings :
            SameTagOtherCase(t, q.args.tags.v) =>
                Range(query_mcqs_with_filters_firebase(
                          store, [q.args EXCEPT !.tags = PyStr(t)], "ok").ret)
                    = Range(q.ret)

\* C4 amended: the same, for two letter-casings neither of which is the
\* exact string "All", which is no tag filter at all.
C4_TagCaseInsensitive ==
    (QueryAnswered /\ q.args.tags # None /\ q.args.tags.v # ALL) =>
        \A t \in TagStrings \ {ALL} :
            SameTagOtherCase(t, q.args.tags.v) =>
                Range(query_mcqs_with_filters_firebase(
                          store, [q.args EXCEPT !.tags = PyStr(t)], "ok").ret)
                    = Range(q.ret)

\* C4 witness: the tag "A" was asked for and a record tagged "a", not "A",
\* was returned, while another record was left out.
C4_Witness ==
    /\ QueryAnswered
    /\ q.args.tags = PyStr(<<"A">>)
    /\ Len(q.ret) < Len(store)
    /\ \E i \in DOMAIN q.ret :
           <<"a">> \in Range(q.ret[i].tags) /\ <<"A">> \notin Range(q.ret[i].tags)

----------------------------------------------------------------------------
(* Claims about the sampler, checked under SpecSample *)

\* C5: with count < len(records) the sampler returns exactly count records,
\* all drawn from records, no identifier twice.
C5_SampleWithoutReplacement ==
    (smp.called /\ smp.count < Len(smp.mcqs)) =>
        /\ Len(smp.ret) = smp.count
        /\ Range(smp.ret) \subseteq Range(smp.mcqs)
        /\ \A i, j \in DOMAIN smp.ret : i # j => smp.ret[i].doc_id # smp.ret[j].doc_id

\* C5 witness: two of three records were drawn.
C5_Witness ==
    smp.called /\ smp.count = 2 /\ Len(smp.mcqs) = 3 /\ Len(smp.ret) = 2

\* C6: with count >= len(records) the sampler returns all of records, in
\* the order of the input.
C6_SampleAllInOrder ==
    (smp.called /\ smp.count >= Len(smp.mcqs)) => smp.ret = smp.mcqs

\* C6 witness: count equals the length of a list of several records.
C6_Witness ==
    smp.called /\ smp.count = Len(smp.mcqs) /\ Len(smp.mcqs) >= 2 /\ Len(smp.ret) >= 2

----------------------------------------------------------------------------
(* Claim about the round trip, checked under SpecRoundTrip *)

\* C7: right after an answered query(year=y), every record saved so far
\* under the past-year type is in the result if and only if the year the
\* author had selected for it is y.
C7_RoundTrip ==
    (event.name = "query" /\ q.outcome = "ok") =>
        \A i \in DOMAIN saved :
            saved[i].question_type = PYQ =>
                ((\E j \in DOMAIN q.ret : q.ret[j].doc_id = saved[i].doc_id)
                    <=> PyEq(saved[i].year, q.args.year))

\* C7 witness: a past-year record was saved with a year other than the
\* default one and the query for that year returned it.
C7_Witness ==
    /\ event.name = "query"
    /\ q.outcome = "ok"
    /\ Len(saved) = 1
    /\ saved[1].question_type = PYQ
    /\ saved[1].year = PyInt(YearStart)
    /\ q.args.year = saved[1].year
    /\ Len(q.ret) = 1

----------------------------------------------------------------------------
(* Claims about the submission path, checked under SpecAuthor (C8, C9)   *)
(* and SpecRoundTrip (C10)                                                 *)

\* What the claims call a submission that fails validation: a required
\* field left empty, or the past-year type selected with no year selected.
FailsValidation(form) ==
    \/ \E f \in RequiredFields : form[f] = <<>>
    \/ widget.question_type = PYQ /\ widget.year = None

\* C8: a submission that fails validation never reaches the store: no call
\* of save_mcq_to_firebase is made, the store is unchanged and an error is
\* shown to the author.
C8_InvalidSubmissionNeverSaved ==
    [][(event'.name = "submit" /\ FailsValidation(event'.form)) =>
          /\ store' = store
          /\ saveCalls' = saveCalls
          /\ \E m \in shown' : m[1] = "error"]_vars

\* C8 witness: after one record was saved, a submission was rejected for a
\* missing required field and the store still holds that one record.
C8_Witness ==
    /\ event.name = "submit"
    /\ event.form.solution = <<>>
    /\ FailsValidation(event.form)
    /\ shown = {<<"error", MSG_REQUIRED>>}
    /\ Len(store) = 1
    /\ saveCalls = 1

\* C9: every persisted record has a non-empty question, non-empty text for
\* each of the options A, B, C, D and a non-empty solution.
C9_PersistedTextNonEmpty ==
    \A i \in DOMAIN store :
        LET d == store[i].data
        IN  /\ Truthy(d.question)
            /\ \A o \in Range(OptionKeys) : Truthy(d.options[o])
            /\ Truthy(d.solution)

\* C10: in every persisted record, year is set if and only if the question
\* type is the past-year type.
C10_YearIffPastYear ==
    \A i \in DOMAIN store :
        Truthy(store[i].data.year) <=> PyEq(store[i].data.question_type, PyStr(PYQ))

\* C10 witness: right after a record of another type was saved with no
\* year, the session still holds the year chosen under the past-year type.
C10_Witness ==
    /\ event.name = "submit"
    /\ event.outcome = "ok"
    /\ Len(store) = 1
    /\ ~PyEq(store[1].data.question_type, PyStr(PYQ))
    /\ store[1].data.year = None
    /\ Truthy(Get(session, "year", None))

----------------------------------------------------------------------------
(* Claim about a failed write, checked under SpecRoundTrip *)

\* C11: when the store fails a write, save returns the failure with the
\* store's error message, that message is shown to the author, nothing is
\* added to the store and add() was called exactly once.
C11_FailedWrite ==
    [][(event'.name = "submit" /\ sv'.called /\ event'.outcome # "ok") =>
          /\ sv'.ret = <<FALSE, event'.outcome>>
          /\ shown' = {<<"error", MSG_SAVE_ERROR \o event'.outcome>>}
          /\ store' = store
          /\ sv'.adds = 1]_vars

\* C11 witness: a complete submission reached the save and the store
\* failed the write.
C11_Witness ==
    /\ event.name = "submit"
    /\ sv.called
    /\ event.outcome = "unavailable"
    /\ sv.ret[1] = FALSE
    /\ store = <<>>

----------------------------------------------------------------------------
(* Claim about the two subject filters, checked under SpecQuery *)

\* The list an answered call with the arguments a returns on the store.
Answer(a) == query_mcqs_with_filters_firebase(store, a, "ok").ret

\* The record carries the value x in the field f.
Carries(rec, f, x) == f \in DOMAIN rec /\ PyEq(rec[f], x)

\* Precedence of subject_name over subject, for a reading Given of "the
\* filter is given": with subject_name given the result is constrained by
\* subject_name and not by subject; otherwise, with subject given, it is
\* constrained by subject.
SubjectPrecedence(Given(_)) ==
    QueryAnswered =>
        /\ Given(q.args.subject_name) =>
               /\ \A i \in DOMAIN q.ret :
                      Carries(q.ret[i], "subject_name", q.args.subject_name)
               /\ q.ret = Answer([q.args EXCEPT !.subject = None])
        /\ (~Given(q.args.subject_name) /\ Given(q.args.subject)) =>
               /\ \A i \in DOMAIN q.ret : Carries(q.ret[i], "subject", q.args.subject)
               /\ q.ret = Answer([q.args EXCEPT !.subject_name = None])

\* C15 as stated: subject_name, when given and not "All", is the only
\* subject constraint; else the legacy subject, when given and not "All".
C15_SubjectPrecedence_Original == SubjectPrecedence(Provided)

\* C15 amended: the same with "given" read as not None, not "All" and not
\* the empty string; an empty subject_name leaves the legacy subject filter
\* in force.
C15_SubjectPrecedence == SubjectPrecedence(ProvidedNonEmpty)

\* C15 witness: the legacy record, which has no subject_name, was returned
\* by a query on its legacy subject, and another record was left out.
C15_Witness ==
    /\ QueryAnswered
    /\ q.args.subject_name = None
    /\ Active(q.args.subject)
    /\ Len(store) = 2
    /\ Len(q.ret) = 1
    /\ "subject_name" \notin DOMAIN q.ret[1]
    /\ PyEq(q.ret[1].subject, q.args.subject)

----------------------------------------------------------------------------
(* Claims about the catalog, checked under SpecQuery *)

\* The values of a field over all records, absent and None skipped.
ValuesOf(field) ==
    {store[i].data[field] :
        i \in {j \in DOMAIN store :
                  field \in DOMAIN store[j].data /\ store[j].data[field] # None}}

\* Every tag of every record that has tags.
TagsOf ==
    UNION {{PyStr(store[i].data.tags[k]) : k \in DOMAIN store[i].data.tags} :
               i \in {j \in DOMAIN store : "tags" \in DOMAIN store[j].data}}

Ascending(l) == \A i, j \in DOMAIN l : i < j => PyLess(l[i], l[j])
Descending(l) == \A i, j \in DOMAIN l : i < j => PyLess(l[j], l[i])

\* C12: an answered catalog call returns, for each of the five fields, the
\* values observed across all records without repetition, years in
\* descending order and the other four lists in ascending order.
C12_CatalogSortedDistinct ==
    (cat.called /\ cat.outcome = "ok") =>
        /\ Range(cat.ret.difficulties) = ValuesOf("difficulty")
        /\ Range(cat.ret.subjects) = ValuesOf("subject")
        /\ Range(cat.ret.types) = ValuesOf("question_type")
        /\ Range(cat.ret.years) = ValuesOf("year")
        /\ Range(cat.ret.tags) = TagsOf
        /\ Ascending(cat.ret.difficulties)
        /\ Ascending(cat.ret.subjects)
        /\ Ascending(cat.ret.types)
        /\ Ascending(cat.ret.tags)
        /\ Descending(cat.ret.years)

\* C12 witness: records with difficulties "Hard", "Easy" and years 2015,
\* 2016, in that order, give ["Easy", "Hard"] and [2016, 2015].
C12_Witness ==
    /\ cat.called
    /\ cat.outcome = "ok"
    /\ Len(store) = 2
    /\ store[1].data.difficulty = PyStr(HARD)
    /\ store[2].data.difficulty = PyStr(EASY)
    /\ cat.ret.difficulties = <<PyStr(EASY), PyStr(HARD)>>
    /\ cat.ret.years = <<PyInt(2016), PyInt(2015)>>

\* C13: a catalog call that fails at the store returns five empty lists
\* and shows no error to the user.
C13_CatalogFailureSilent ==
    (cat.called /\ cat.outcome # "ok") =>
        /\ cat.ret = EmptyCatalog
        /\ \A m \in shown : m[1] # "error"

----------------------------------------------------------------------------
(* Claim about the records of the store, checked under SpecRoundTrip *)

----------------------------------------------------------------------------
(* Claim about the image of a question, checked under SpecImage *)

\* The image st.session_state holds, None when it holds none.
SessionImage(ss) == Get(ss, "question_image", None)

\* C18: a submission that is saved writes the image held in the session,
\* and only that, into the new record and leaves the session without an
\* image; a submission that fails validation or whose save fails leaves
\* the image in the session as it was.
C18_ImageFollowsSession ==
    [][event'.name = "submit" =>
          IF sv'.called /\ sv'.ret[1]
          THEN /\ Len(store') = Len(store) + 1
               /\ LET data == store'[Len(store')].data
                  IN  IF SessionImage(session) = None
                      THEN "question_image" \notin DOMAIN data
                      ELSE /\ "question_image" \in DOMAIN data
                           /\ data.question_image = SessionImage(session)
               /\ "question_image" \notin DOMAIN session'
          ELSE /\ store' = store
               /\ SessionImage(session') = SessionImage(session)]_vars

\* C18 witness: a record was saved with the image of the second file, and
\* the session holds no image any more while the uploader still holds the
\* file.
C18_Witness ==
    /\ event.name = "submit"
    /\ sv.called
    /\ sv.ret[1]
    /\ Len(store) = 1
    /\ "question_image" \in DOMAIN store[1].data
    /\ store[1].data.question_image = PyStr(ImgStr(<<"f", "2">>))
    /\ widget.uploaded_img = PyStr(<<"f", "2">>)
    /\ "question_image" \notin DOMAIN session

----------------------------------------------------------------------------
(* Claims about the selection and its download, checked under SpecSelector *)

\* C16: the download data records, for each filter, the value of the
\* filter control of the query (the subject entry is the subject filter),
\* and its count is the number of its questions.
C16_DownloadRecordsFilters ==
    view.kind = "selector" /\ view.displayed =>
        LET info == view.download_data.selection_info
        IN  /\ info.filters_applied.difficulty = tab3.difficulty
            /\ info.filters_applied.subject = tab3.filter_subject
            /\ info.filters_applied.question_type = tab3.type
            /\ info.filters_applied.year = SelectedYear(tab3.year)
            /\ info.total_questions = Len(view.download_data.questions)

\* C17: the selection displayed and offered for download holds only
\* records of the current filtered query result, and at most as many as
\* the number input currently asks for.
C17_SelectionMatchesFilters ==
    view.kind = "selector" /\ view.displayed =>
        /\ Range(view.selected_mcqs) \subseteq Range(view.filtered)
        /\ Len(view.selected_mcqs) <= tab3.num_questions

====
